---- MODULE Spec2Model ----
(***************************************************************************)
(* A model of the quiz pipeline of notion-neetcode-mcq:                    *)
(*   - the SQLite store of questions and attempts (src/db.ts),             *)
(*   - the Telegram webhook that records answers (src/bot.ts),             *)
(*   - the batch run that generates, stores and delivers MCQs              *)
(*     (src/unnamed/part_000, imported by bot.ts as ./fetchDb).            *)
(*                                                                         *)
(* A JavaScript string is a sequence of chunks; a chunk is a piece of text *)
(* holding no colon, or the colon itself.  Text that is only stored and    *)
(* shown (question text, explanation) is an opaque TLA+ string.            *)
(***************************************************************************)
EXTENDS Integers, Sequences, FiniteSets, TLC

VARIABLES
    questions,  \* rows of table questions (db.ts:30-38)
    attempts,   \* rows of table attempts, in id order (db.ts:40-46)
    today,      \* the calendar day CURRENT_TIMESTAMP falls on
    ret,        \* what the last call of the Db API returned or threw
    req,        \* the webhook requests in flight or finished (bot.ts:95-108)
    batch,      \* the state of one batch run (part_000:256-270)
    outbox,     \* the sendMessage calls of the batch run, in order
    archive,    \* the MCQs appended to mcqs.json
    configured  \* TELEGRAM_BOT_TOKEN and TELEGRAM_CHAT_ID are both set

vars == <<questions, attempts, today, ret, req, batch, outbox, archive, configured>>

-----------------------------------------------------------------------------
(* Bounds of the model.                                                    *)

MaxAttempts == 3   \* rows the attempts table may hold when the days pass
MaxRows == 2       \* rows the attempts table may hold otherwise
MaxDay == 3        \* days are 0..MaxDay
MaxOptions == 2    \* options in one generated MCQ
MaxBatch == 2      \* candidates selectQuestions hands to one run
MaxFields == 4     \* colon-delimited fields of an inbound payload

-----------------------------------------------------------------------------
(* Strings.                                                                *)

Colon == ":"

\* The value of an absent array element or property.
Undefined == <<"#undefined">>

Upper == <<"A", "B", "C", "D", "E", "F", "G", "H", "I", "J", "K", "L", "M",
           "N", "O", "P", "Q", "R", "S", "T", "U", "V", "W", "X", "Y", "Z">>

Lower == <<"a", "b", "c", "d", "e", "f", "g", "h", "i", "j", "k", "l", "m",
           "n", "o", "p", "q", "r", "s", "t", "u", "v", "w", "x", "y", "z">>

\* String.fromCharCode(n) for the codes 64 ("@") to 90 ("Z").
FromCharCode(n) == IF n = 64 THEN <<"@">> ELSE <<Upper[n - 64]>>

ToLowerChunk(c) ==
    IF \E i \in 1..Len(Upper) : Upper[i] = c
    THEN Lower[CHOOSE i \in 1..Len(Upper) : Upper[i] = c]
    ELSE c

\* String.prototype.toLowerCase
ToLowerCase(s) == [i \in 1..Len(s) |-> ToLowerChunk(s[i])]

HasColon(s) == \E i \in 1..Len(s) : s[i] = Colon

FirstColon(s) == CHOOSE i \in 1..Len(s) : s[i] = Colon /\ \A j \in 1..(i - 1) : s[j] # Colon

RECURSIVE Split(_)
\* String.prototype.split(":"): the empty string gives one empty field.
Split(s) ==
    IF ~HasColon(s) THEN <<s>>
    ELSE <<SubSeq(s, 1, FirstColon(s) - 1)>> \o Split(SubSeq(s, FirstColon(s) + 1, Len(s)))

RECURSIVE Join(_)
\* Array.prototype.join(":")
Join(fields) ==
    IF Len(fields) = 0 THEN <<>>
    ELSE IF Len(fields) = 1 THEN fields[1]
    ELSE fields[1] \o <<Colon>> \o Join(Tail(fields))

\* a[i - 1] of a JavaScript array: undefined past its end.
ArrayAt(a, i) == IF i <= Len(a) THEN a[i] ELSE Undefined

-----------------------------------------------------------------------------
(* The store: class Db of src/db.ts.                                       *)

\* nanoid() values; none holds a colon.
Ids == {<<"q1">>, <<"q2">>}

\* An id no question has (the Q999 of a stale callback).
UnknownId == <<"q999">>

Texts == {"t1", "t2"}

StoredLabels == {<<"A">>, <<"b">>}

Answers == {<<"A">>, <<"a">>, <<"B">>}

\* The rows insertQuestion is called with (db.ts:50-57).
QuestionRows ==
    [id : Ids, notion_page_id : {"db"}, leetcode_question : {"d1"},
     question : {"t1"}, correct_answer : StoredLabels, explanation : {"e1"}]

\* Db.getQuestion: SELECT * FROM questions WHERE id = ?, as the set of rows
\* found: empty where stmt.get returns undefined (an undefined id binds as
\* NULL, which equals no id), one row otherwise since id is the PRIMARY KEY.
GetQuestion(id) == {q \in questions : q.id = id}

InsertOrReplace(rows, question) ==
    [threw |-> FALSE,
     questions |-> {q \in rows : q.id # question.id} \cup {question}]

\* Db.insertQuestion: id is the PRIMARY KEY, so a second row with the same id
\* makes stmt.run throw and inserts nothing.
InsertInto(rows, question) ==
    IF \E q \in rows : q.id = question.id
    THEN [threw |-> TRUE, questions |-> rows]
    ELSE [threw |-> FALSE, questions |-> rows \cup {question}]

InsertQuestionOutcome(question) == InsertInto(questions, question)

CorrectAsCaseSensitive(qn, selectedAnswer) ==
    IF qn.correct_answer = selectedAnswer THEN 1 ELSE 0

\* The comparison of db.ts:76-77, giving SQLite's 1 or 0.
CorrectFlag(qn, selectedAnswer) ==
    IF ToLowerCase(qn.correct_answer) = ToLowerCase(selectedAnswer) THEN 1 ELSE 0

\* The row INSERT INTO attempts adds: id is AUTOINCREMENT, answered_at is
\* CURRENT_TIMESTAMP.
AttemptRow(questionId, selectedAnswer, correct) ==
    [id |-> Len(attempts) + 1, question_id |-> questionId,
     selected_answer |-> selectedAnswer, correct |-> correct,
     answered_at |-> today]

Threw(error) ==
    [threw |-> TRUE, error |-> error, question |-> {}, correct |-> FALSE,
     attempts |-> attempts]

RecordAttemptSkipsLookup(questionId, selectedAnswer, fault) ==
    LET correct == IF \E qn \in GetQuestion(questionId) :
                          CorrectFlag(qn, selectedAnswer) = 1
                   THEN 1 ELSE 0
    IN  [threw |-> FALSE, error |-> "", question |-> GetQuestion(questionId),
         correct |-> (correct = 1),
         attempts |-> Append(attempts, AttemptRow(questionId, selectedAnswer, correct))]

RecordAttemptUpserts(questionId, selectedAnswer, fault) ==
    IF GetQuestion(questionId) = {} THEN Threw("Question not found")
    ELSE LET qn == CHOOSE q \in GetQuestion(questionId) : TRUE
             correct == CorrectFlag(qn, selectedAnswer)
             kept == SelectSeq(attempts, LAMBDA a : a.question_id # questionId)
         IN  [threw |-> FALSE, error |-> "", question |-> {qn},
              correct |-> (correct = 1),
              attempts |-> Append(kept, [AttemptRow(questionId, selectedAnswer, correct)
                                            EXCEPT !.id = Len(kept) + 1])]

\* Db.recordAttempt: what it throws or returns, and the attempts table after
\* it.  fault says where the database itself fails: "none", "get" (the SELECT
\* throws) or "run" (the INSERT throws).
RecordAttemptOutcome(questionId, selectedAnswer, fault) ==
    IF fault = "get" THEN Threw("SqliteError")
    ELSE IF GetQuestion(questionId) = {} THEN Threw("Question not found")
    ELSE IF selectedAnswer = Undefined THEN Threw("TypeError")
    ELSE IF fault = "run" THEN Threw("SqliteError")
    ELSE LET qn == CHOOSE q \in GetQuestion(questionId) : TRUE
             correct == CorrectFlag(qn, selectedAnswer)
         IN  [threw |-> FALSE, error |-> "", question |-> {qn},
              correct |-> (correct = 1),
              attempts |-> Append(attempts,
                                  AttemptRow(questionId, selectedAnswer, correct))]

Faults == {"none", "get", "run"}

-----------------------------------------------------------------------------
(* The Db API called directly: any sequence of insertQuestion and          *)
(* recordAttempt calls on a database file that starts empty.               *)

NoCall ==
    [op |-> "none", id |-> <<>>, selected |-> <<>>, fault |-> "none",
     threw |-> FALSE, error |-> "", correct |-> FALSE, question |-> {}]

Idle == [pc |-> "idle"]

\* new Db(): Db.init creates the two tables if absent (db.ts:23-48).
InitDb ==
    /\ questions = {}
    /\ attempts = <<>>
    /\ today = 0
    /\ ret = NoCall
    /\ req = <<>>
    /\ batch = Idle
    /\ outbox = <<>>
    /\ archive = <<>>
    /\ configured = TRUE

InsertQuestion(question) ==
    LET out == InsertQuestionOutcome(question) IN
    /\ questions' = out.questions
    /\ ret' = [op |-> "insertQuestion", id |-> question.id, selected |-> <<>>,
               fault |-> "none", threw |-> out.threw,
               error |-> IF out.threw THEN "SqliteError" ELSE "",
               correct |-> FALSE, question |-> {question}]
    /\ UNCHANGED <<attempts, today, req, batch, outbox, archive, configured>>

RecordAttempt(questionId, selectedAnswer, fault) ==
    LET out == RecordAttemptOutcome(questionId, selectedAnswer, fault) IN
    /\ Len(attempts) < MaxRows
    /\ attempts' = out.attempts
    /\ ret' = [op |-> "recordAttempt", id |-> questionId,
               selected |-> selectedAnswer, fault |-> fault, threw |-> out.threw,
               error |-> out.error, correct |-> out.correct,
               question |-> out.question]
    /\ UNCHANGED <<questions, today, req, batch, outbox, archive, configured>>

NextDb ==
    \/ \E question \in QuestionRows : InsertQuestion(question)
    \/ \E questionId \in Ids \cup {UnknownId}, selectedAnswer \in Answers,
          fault \in Faults :
          RecordAttempt(questionId, selectedAnswer, fault)

SpecDb == InitDb /\ [][NextDb]_vars

-----------------------------------------------------------------------------
(* The streak.  bot.ts:52 calls db.getStreak(), which src/db.ts does not   *)
(* define; it is modelled from the specification's section 4.5: the number *)
(* of consecutive calendar days, walking backward from the current day,    *)
(* that each hold a correct attempt.  No attempt is older than day 0.      *)

CorrectOn(rows, day) ==
    \E i \in 1..Len(rows) : rows[i].correct = 1 /\ rows[i].answered_at = day

RECURSIVE StreakFrom(_, _)
StreakFrom(rows, day) ==
    IF day < 0 \/ ~CorrectOn(rows, day) THEN 0 ELSE 1 + StreakFrom(rows, day - 1)

GetStreak(rows, asOf) == StreakFrom(rows, asOf)

-----------------------------------------------------------------------------
(* The webhook: POST /telegram-webhook of src/bot.ts.                      *)

\* The handlers the server runs; one request is handled in each at a time.
Slots == {1}

Kinds == {<<"answer">>}

\* The values an inbound payload may carry in its i-th field.
SlotValues(i) ==
    IF i = 1 THEN Kinds
    ELSE IF i = 2 THEN {<<"A">>, <<"B">>}
    ELSE IF i = 3 THEN Ids \cup {UnknownId}
    ELSE {<<"x">>}

FieldSeqs(n) ==
    {f \in [1..n -> UNION {SlotValues(i) : i \in 1..MaxFields}] :
        \A i \in 1..n : f[i] \in SlotValues(i)}

\* callback.data of the inbound events: the payloads of the buttons, and what
\* is left of them with fields cut off the end or the front, or fields added.
InboundPayloads ==
    {Join(f) : f \in UNION {FieldSeqs(n) : n \in 0..MaxFields}}
      \cup {Join(Tail(f)) : f \in UNION {FieldSeqs(n) : n \in 1..3}}

\* req.body: without callback_query, or with one whose data and message may
\* be absent.
NoCallback == [callback |-> FALSE, hasData |-> FALSE, data |-> <<>>, hasMessage |-> FALSE]

Bodies ==
    {NoCallback}
      \cup [callback : {TRUE}, hasData : {TRUE}, data : InboundPayloads,
            hasMessage : {TRUE}]
      \cup {[callback |-> TRUE, hasData |-> TRUE,
             data |-> Join(<<<<"answer">>, <<"A">>, <<"q1">>>>), hasMessage |-> FALSE]}
      \cup {[callback |-> TRUE, hasData |-> FALSE, data |-> <<>>, hasMessage |-> TRUE]}

NoReply == [kind |-> "none", streak |-> 0, question |-> {}, answer |-> <<>>]

\* A handler with no request yet.  priorFailure remembers that an earlier
\* request of this handler ended with recordAttempt throwing.
NoRequest ==
    [pc |-> "none", callback |-> FALSE, nfields |-> 0, kind |-> <<>>,
     answer |-> <<>>, questionId |-> <<>>, hasMessage |-> FALSE,
     acked |-> FALSE, edited |-> FALSE, recorded |-> "none", error |-> "",
     isCorrect |-> FALSE, data |-> <<>>,
     reply |-> NoReply, sendIssued |-> FALSE, status |-> 0, crashed |-> FALSE,
     priorFailure |-> FALSE]

\* The questions an earlier batch run left in the store.
StoredQuestions ==
    {[id |-> <<"q1">>, notion_page_id |-> "db", leetcode_question |-> "d1",
      question |-> "t1", correct_answer |-> <<"A">>, explanation |-> "e1"],
     [id |-> <<"q2">>, notion_page_id |-> "db", leetcode_question |-> "d1",
      question |-> "t2", correct_answer |-> <<"B">>, explanation |-> "e1"]}

InitBot ==
    /\ questions = StoredQuestions
    /\ attempts = <<>>
    /\ today = 0
    /\ ret = NoCall
    /\ req = [r \in Slots |-> NoRequest]
    /\ batch = Idle
    /\ outbox = <<>>
    /\ archive = <<>>
    /\ configured \in BOOLEAN

\* What an error that escapes the async route handler leads to: Express 4
\* never answers the request, and the unhandled rejection ends the process or
\* not as Node is set up; Express 5 answers 500.
Escapes == {"hang", "crash", "500"}

Rejected(rq, how) ==
    [rq EXCEPT !.pc = "rejected",
               !.status = IF how = "500" THEN 500 ELSE 0,
               !.crashed = (how = "crash")]

\* res.sendStatus(200)
Responded(rq) == [rq EXCEPT !.pc = "done", !.status = 200]

\* bot.ts:95-102, up to the first await: the request arrives, the payload is
\* split and destructured and answerCallbackQuery issues its fetch.
ReceiveWithoutAck(r, body, how) ==
    LET fields == Split(body.data)
        fresh == [NoRequest EXCEPT !.priorFailure =
                      req[r].priorFailure \/ req[r].recorded = "threw"]
    IN
    /\ req[r].pc \in {"none", "done", "rejected"}
    /\ ~req[r].crashed
    /\ req' = [req EXCEPT ![r] =
          IF ~body.callback THEN Responded(fresh)
          ELSE IF ~body.hasData THEN Rejected([fresh EXCEPT !.callback = TRUE], how)
          ELSE [fresh EXCEPT !.pc = "awaitAck", !.callback = TRUE,
                             !.data = body.data,
                             !.nfields = Len(fields),
                             !.kind = ArrayAt(fields, 1),
                             !.answer = ArrayAt(fields, 2),
                             !.questionId = ArrayAt(fields, 3),
                             !.hasMessage = body.hasMessage,
                             !.acked = FALSE]]
    /\ UNCHANGED <<questions, attempts, today, ret, batch, outbox, archive, configured>>

Receive(r, body, how) ==
    LET fields == Split(body.data)
        fresh == [NoRequest EXCEPT !.priorFailure =
                      req[r].priorFailure \/ req[r].recorded = "threw"]
    IN
    /\ req[r].pc \in {"none", "done", "rejected"}
    /\ ~req[r].crashed
    /\ req' = [req EXCEPT ![r] =
          IF ~body.callback THEN Responded(fresh)
          ELSE IF ~body.hasData THEN Rejected([fresh EXCEPT !.callback = TRUE], how)
          ELSE [fresh EXCEPT !.pc = "awaitAck", !.callback = TRUE,
                             !.data = body.data,
                             !.nfields = Len(fields),
                             !.kind = ArrayAt(fields, 1),
                             !.answer = ArrayAt(fields, 2),
                             !.questionId = ArrayAt(fields, 3),
                             !.hasMessage = body.hasMessage,
                             !.acked = TRUE]]
    /\ UNCHANGED <<questions, attempts, today, ret, batch, outbox, archive, configured>>

\* bot.ts:102-103: the fetch of answerCallbackQuery settles; if it resolved,
\* removeInlineKeyboard reads callback.message and issues its fetch.
AckReturns(r, ok, how) ==
    /\ req[r].pc = "awaitAck"
    /\ req' = [req EXCEPT ![r] =
          IF ~ok \/ ~req[r].hasMessage THEN Rejected(req[r], how)
          ELSE [req[r] EXCEPT !.pc = "awaitEdit", !.edited = TRUE]]
    /\ UNCHANGED <<questions, attempts, today, ret, batch, outbox, archive, configured>>

FailureReply == [NoReply EXCEPT !.kind = "failure"]

ReplyWithStaleStreak(out, answer) ==
    IF out.correct
    THEN [NoReply EXCEPT !.kind = "correct", !.streak = GetStreak(attempts, today)]
    ELSE [NoReply EXCEPT !.kind = "incorrect", !.question = out.question,
                         !.answer = answer]

\* The message of bot.ts:50-59, built from what recordAttempt returned.
ReplyFor(out, answer) ==
    IF out.correct
    THEN [NoReply EXCEPT !.kind = "correct",
                         !.streak = GetStreak(out.attempts, today)]
    ELSE [NoReply EXCEPT !.kind = "incorrect", !.question = out.question,
                         !.answer = answer]

HandleAnswerWithoutCatch(rq, fault, dbOpens, streakThrows, how) ==
    IF ~dbOpens THEN [req |-> Rejected(rq, how), attempts |-> attempts]
    ELSE LET out == RecordAttemptOutcome(rq.questionId, rq.answer, fault)
             done == [rq EXCEPT !.recorded = IF out.threw THEN "threw" ELSE "ok",
                                !.error = out.error, !.isCorrect = out.correct]
         IN  [attempts |-> out.attempts,
              req |-> IF out.threw \/ (out.correct /\ streakThrows)
                      THEN Rejected(done, how)
                      ELSE Responded([done EXCEPT !.reply = ReplyFor(out, rq.answer),
                                                  !.sendIssued = configured])]

\* handleAnswer (bot.ts:36-68) and the res.sendStatus(200) that follows it
\* when nothing is awaited in between.  new Db() stands outside the try, so
\* its error escapes; what recordAttempt or getStreak throws is caught and the
\* failure text is sent and awaited; the reply after a recorded attempt is
\* sent without await.  sendTelegramMessage issues no fetch when the bot token
\* or the chat id is not set.
HandleAnswer(rq, fault, dbOpens, streakThrows, how) ==
    IF ~dbOpens THEN [req |-> Rejected(rq, how), attempts |-> attempts]
    ELSE LET out == RecordAttemptOutcome(rq.questionId, rq.answer, fault)
             done == [rq EXCEPT !.recorded = IF out.threw THEN "threw" ELSE "ok",
                                !.error = out.error, !.isCorrect = out.correct]
         IN  [attempts |-> out.attempts,
              req |-> IF out.threw \/ (out.correct /\ streakThrows)
                      THEN LET told == [done EXCEPT !.reply = FailureReply,
                                                    !.sendIssued = configured]
                           IN  IF configured THEN [told EXCEPT !.pc = "awaitSend"]
                               ELSE Responded(told)
                      ELSE Responded([done EXCEPT !.reply = ReplyFor(out, rq.answer),
                                                  !.sendIssued = configured])]

EditReturnsHoldingLock(r, ok, fault, dbOpens, streakThrows, how) ==
    LET res == HandleAnswer(req[r], fault, dbOpens, streakThrows, how) IN
    /\ req[r].pc = "awaitEdit"
    /\ \A q \in DOMAIN req \ {r} :
          ~(req[q].pc = "awaitEdit" /\ req[q].questionId = req[r].questionId)
    /\ IF ~ok
       THEN /\ req' = [req EXCEPT ![r] = Rejected(req[r], how)]
            /\ attempts' = attempts
       ELSE /\ req' = [req EXCEPT ![r] = res.req]
            /\ attempts' = res.attempts
    /\ UNCHANGED <<questions, today, ret, batch, outbox, archive, configured>>

\* bot.ts:103-107: the fetch of removeInlineKeyboard settles; if it resolved,
\* handleAnswer runs.
EditReturns(r, ok, fault, dbOpens, streakThrows, how) ==
    LET res == HandleAnswer(req[r], fault, dbOpens, streakThrows, how) IN
    /\ req[r].pc = "awaitEdit"
    /\ IF ~ok
       THEN /\ req' = [req EXCEPT ![r] = Rejected(req[r], how)]
            /\ attempts' = attempts
       ELSE /\ req' = [req EXCEPT ![r] = res.req]
            /\ attempts' = res.attempts
    /\ UNCHANGED <<questions, today, ret, batch, outbox, archive, configured>>

\* bot.ts:63-66 and 107: the awaited send of the failure text settles (its
\* rejection is caught in sendTelegramMessage) and the request is answered.
SendReturns(r, ok) ==
    /\ req[r].pc = "awaitSend"
    /\ req' = [req EXCEPT ![r] = Responded(req[r])]
    /\ UNCHANGED <<questions, attempts, today, ret, batch, outbox, archive, configured>>

\* Midnight passes.
NextDay ==
    /\ today < MaxDay
    /\ today' = today + 1
    /\ UNCHANGED <<questions, attempts, ret, req, batch, outbox, archive, configured>>

\* The steps of the handler of a request: each fetch settles either way,
\* the database opens or not and fails where it can, and an error that
\* escapes ends in each of the ways it can.
Step(r) ==
    \/ \E ok \in BOOLEAN :
          \E how \in (IF ok /\ req[r].hasMessage THEN {"hang"} ELSE Escapes) :
             AckReturns(r, ok, how)
    \/ \E ok \in BOOLEAN, dbOpens \in BOOLEAN :
          \E how \in (IF ok /\ dbOpens THEN {"hang"} ELSE Escapes),
             fault \in (IF ok /\ dbOpens THEN Faults ELSE {"none"}),
             streakThrows \in (IF ok /\ dbOpens THEN BOOLEAN ELSE {FALSE}) :
             EditReturns(r, ok, fault, dbOpens, streakThrows, how)
    \/ \E ok \in BOOLEAN : SendReturns(r, ok)

\* A request arrives at a handler that holds none, while the table has room.
Arrives(r, bodies, room) ==
    \E body \in bodies :
       \E how \in (IF body.callback /\ ~body.hasData THEN Escapes ELSE {"hang"}) :
          /\ Len(attempts) < room
          /\ Receive(r, body, how)

\* The webhook under any inbound events.
NextBot ==
    \E r \in Slots :
       \/ Arrives(r, Bodies, MaxRows)
       \/ Step(r)

SpecBot == InitBot /\ [][NextBot]_vars

\* The events of a user pressing the buttons of a delivered question.
ButtonBodies ==
    [callback : {TRUE}, hasData : {TRUE},
     data : {Join(<<k, a, <<"q1">>>>) : k \in Kinds, a \in SlotValues(2)},
     hasMessage : {TRUE}]

\* The webhook over the days, the user answering delivered questions.
NextStreak ==
    \/ \E r \in Slots :
          \/ Arrives(r, ButtonBodies, MaxAttempts)
          \/ Step(r)
    \/ NextDay

SpecStreak == InitBot /\ [][NextStreak]_vars

-----------------------------------------------------------------------------
(* Two callbacks handled at once: Express starts the handler of a request  *)
(* while the handler of another is suspended at an await.                  *)

\* The two handler invocations.
Pair == {1, 2}

\* The presses of the buttons of the stored questions, and of a question
\* that is not stored.
PairBodies ==
    [callback : {TRUE}, hasData : {TRUE},
     data : {Join(<<k, a, id>>) :
                k \in Kinds, a \in SlotValues(2), id \in {<<"q1">>, UnknownId}},
     hasMessage : {TRUE}]

InitPair ==
    /\ questions = StoredQuestions
    /\ attempts = <<>>
    /\ today = 0
    /\ ret = NoCall
    /\ req = [r \in Pair |-> NoRequest]
    /\ batch = Idle
    /\ outbox = <<>>
    /\ archive = <<>>
    /\ configured = TRUE

\* An unhandled rejection has ended the process.
ProcessEnded == \E r \in DOMAIN req : req[r].crashed

\* Either handler takes its next step, in any order, while the process is up.
NextPair ==
    \E r \in (IF ProcessEnded THEN {} ELSE Pair) :
       \/ Arrives(r, PairBodies, MaxRows)
       \/ Step(r)

\* Every promise a handler awaits settles, and the event loop then runs the
\* handler's continuation.
SpecPair ==
    /\ InitPair
    /\ [][NextPair]_vars
    /\ \A r \in Pair : WF_vars(~ProcessEnded /\ Step(r))

-----------------------------------------------------------------------------
(* The batch run: run() of src/unnamed/part_000 and what it calls.         *)

\* count of selectQuestions: run() passes none, so the default applies.
DefaultCount == 1

\* The options arrays McqQuestionSchema accepts: any number of options, any
\* of them flagged correct.
OptionLists ==
    UNION {[1..n -> [content : {"c"}, is_correct : BOOLEAN]] : n \in 0..MaxOptions}

\* response.parsed_output of the generation call when it is not null.
ParsedOutputs ==
    [question : Texts, leetcode_description : {"d1"}, options : OptionLists,
     explanation : {"e1"}]

\* What the awaited client.messages.parse gives: it throws, or its
\* parsed_output is null, or it is an object of the schema.
Responses ==
    {[kind |-> k, output |-> CHOOSE o \in ParsedOutputs : TRUE] : k \in {"throws", "null"}}
      \cup [kind : {"parsed"}, output : ParsedOutputs]

\* The ids in use; nanoid() gives one that is not.
UsedIds ==
    {q.id : q \in questions}
      \cup {batch.mcqs[i].id : i \in 1..Len(batch.mcqs)}
      \cup {archive[i].id : i \in 1..Len(archive)}

\* Array.prototype.findIndex(opt => opt.is_correct): the first such index
\* from 0, or -1.
FindIndex(options) ==
    IF \E i \in 1..Len(options) : options[i].is_correct
    THEN (CHOOSE i \in 1..Len(options) :
             options[i].is_correct /\ \A j \in 1..(i - 1) : ~options[j].is_correct) - 1
    ELSE -1

\* The row saveToDb hands to insertQuestion (part_000:243-252); the "?? 26"
\* applies to a sum that is never null.
RowOf(mcq) ==
    [id |-> mcq.id, notion_page_id |-> "db",
     leetcode_question |-> mcq.leetcode_description, question |-> mcq.question,
     correct_answer |-> FromCharCode(65 + FindIndex(mcq.options)),
     explanation |-> mcq.explanation]

RECURSIVE SaveFrom(_, _, _, _)
\* The loop of saveToDb from index i on: it ends at the first insertQuestion
\* that throws (faultAt is the index at which the database fails, 0 for none).
SaveFrom(rows, mcqs, i, faultAt) ==
    IF i > Len(mcqs) THEN [questions |-> rows, threw |-> FALSE, saved |-> 1..Len(mcqs)]
    ELSE IF faultAt = i \/ InsertInto(rows, RowOf(mcqs[i])).threw
    THEN [questions |-> rows, threw |-> TRUE, saved |-> 1..(i - 1)]
    ELSE SaveFrom(InsertInto(rows, RowOf(mcqs[i])).questions, mcqs, i + 1, faultAt)

SaveToDb(mcqs, faultAt) == SaveFrom(questions, mcqs, 1, faultAt)

\* The inline keyboard of part_000:225-233: one row of one button per option.
Buttons(mcq) ==
    [idx \in 1..Len(mcq.options) |->
        [text |-> FromCharCode(65 + (idx - 1)),
         callbackData |-> <<"answer", Colon>> \o FromCharCode(65 + (idx - 1))
                             \o <<Colon>> \o mcq.id]]

ContextMessage(mcq) ==
    [kind |-> "context", id |-> mcq.id, buttons |-> <<>>, status |-> "pending"]

QuestionMessage(mcq) ==
    [kind |-> "question", id |-> mcq.id, buttons |-> Buttons(mcq), status |-> "pending"]

\* sendTelegramMessage of part_000:181-216 up to its await: the fetch is
\* issued unless the bot token or the chat id is not set.
Issue(box, message) == IF configured THEN Append(box, message) ELSE box

\* The fetch of the last message issued settles.
Settle(box, ok) ==
    IF Len(box) = 0 THEN box
    ELSE [box EXCEPT ![Len(box)].status = IF ok THEN "sent" ELSE "failed"]

\* No run yet.  error names the call whose error ended a run: "Db",
\* "fetchQuestions", "generateMcqs" or "saveToFile".
NoRun ==
    [pc |-> "idle", n |-> 0, k |-> 0, mcqs |-> <<>>, saved |-> {},
     saveThrew |-> FALSE, error |-> ""]

\* The store holds a question of an earlier run; the ids left are for this one.
InitRun ==
    /\ questions = {q \in StoredQuestions : q.id = <<"q2">>}
    /\ attempts = <<>>
    /\ today = 0
    /\ ret = NoCall
    /\ req = [r \in Slots |-> NoRequest]
    /\ batch = NoRun
    /\ outbox = <<>>
    /\ archive = <<>>
    /\ configured \in BOOLEAN

\* run() up to its first await (part_000:256-259): new Db() and the query of
\* the Notion data source.
StartRun(dbOpens) ==
    /\ batch.pc \in {"idle", "done", "failed"}
    /\ Ids \ UsedIds # {}
    /\ batch' = [NoRun EXCEPT !.pc = IF dbOpens THEN "fetch" ELSE "failed",
                              !.error = IF dbOpens THEN "" ELSE "Db"]
    /\ UNCHANGED <<questions, attempts, today, ret, req, outbox, archive, configured>>

\* part_000:266-269 after generateMcqs has returned: saveToDb runs to its end
\* or to its first throw (it is not awaited, so what it throws is not seen by
\* run), saveToFile appends every MCQ, and sendToTelegram issues the context
\* message of the first MCQ.  An unhandled rejection of saveToDb ends the
\* process or not, as Node is set up, once this has run.
Deliver(b, mcqs, faultAt, fileOk, dies) ==
    LET save == SaveToDb(mcqs, faultAt)
        kept == [b EXCEPT !.mcqs = mcqs, !.saved = save.saved,
                          !.saveThrew = save.threw, !.k = 1]
    IN
    /\ questions' = save.questions
    /\ IF ~fileOk
       THEN /\ batch' = [kept EXCEPT !.pc = "failed", !.error = "saveToFile"]
            /\ UNCHANGED <<archive, outbox>>
       ELSE /\ archive' = archive \o mcqs
            /\ outbox' = IF Len(mcqs) = 0 THEN outbox
                         ELSE Issue(outbox, ContextMessage(mcqs[1]))
            /\ batch' = [kept EXCEPT !.pc =
                            IF save.threw /\ dies THEN "crashed"
                            ELSE IF Len(mcqs) = 0 \/ ~configured THEN "done"
                            ELSE "context"]

\* part_000:259-264: the query settles; selectQuestions samples count of the
\* eligible candidates and generateMcqs issues the first generation call.
FetchReturns(ok, eligible, count) ==
    LET n == IF eligible < count THEN eligible ELSE count IN
    /\ batch.pc = "fetch"
    /\ IF ~ok
       THEN /\ batch' = [batch EXCEPT !.pc = "failed", !.error = "fetchQuestions"]
            /\ UNCHANGED <<questions, archive, outbox>>
       ELSE IF n = 0
       THEN Deliver(batch, <<>>, 0, TRUE, FALSE)
       ELSE /\ batch' = [batch EXCEPT !.pc = "generate", !.n = n, !.k = 1]
            /\ UNCHANGED <<questions, archive, outbox>>
    /\ UNCHANGED <<attempts, today, ret, req, configured>>

GenerateReturnsInCycles(response, id, faultAt, fileOk, dies) ==
    LET mcqs == IF response.kind = "parsed"
                THEN Append(batch.mcqs,
                            [question |-> response.output.question,
                             leetcode_description |-> response.output.leetcode_description,
                             options |-> response.output.options,
                             explanation |-> response.output.explanation,
                             id |-> id])
                ELSE batch.mcqs
    IN
    /\ batch.pc = "generate"
    /\ id \in Ids \ UsedIds
    /\ IF response.kind = "throws"
       THEN /\ batch' = [batch EXCEPT !.pc = "failed", !.error = "generateMcqs"]
            /\ UNCHANGED <<questions, archive, outbox>>
       ELSE IF batch.k < batch.n
       THEN /\ batch' = [batch EXCEPT !.k = batch.k + 1, !.mcqs = mcqs]
            /\ questions' = SaveToDb(mcqs, 0).questions
            /\ UNCHANGED <<archive, outbox>>
       ELSE Deliver(batch, mcqs, faultAt, fileOk, dies)
    /\ UNCHANGED <<attempts, today, ret, req, configured>>

\* part_000:108-127: one generation call settles; its parsed_output, if any,
\* is pushed with a new id, and the next call is issued or generateMcqs
\* returns and run goes on.
GenerateReturns(response, id, faultAt, fileOk, dies) ==
    LET mcqs == IF response.kind = "parsed"
                THEN Append(batch.mcqs,
                            [question |-> response.output.question,
                             leetcode_description |-> response.output.leetcode_description,
                             options |-> response.output.options,
                             explanation |-> response.output.explanation,
                             id |-> id])
                ELSE batch.mcqs
    IN
    /\ batch.pc = "generate"
    /\ id \in Ids \ UsedIds
    /\ IF response.kind = "throws"
       THEN /\ batch' = [batch EXCEPT !.pc = "failed", !.error = "generateMcqs"]
            /\ UNCHANGED <<questions, archive, outbox>>
       ELSE IF batch.k < batch.n
       THEN /\ batch' = [batch EXCEPT !.k = batch.k + 1, !.mcqs = mcqs]
            /\ UNCHANGED <<questions, archive, outbox>>
       ELSE Deliver(batch, mcqs, faultAt, fileOk, dies)
    /\ UNCHANGED <<attempts, today, ret, req, configured>>

ContextReturnsUnawaited(ok) ==
    /\ batch.pc = "context"
    /\ outbox' = Issue(outbox, QuestionMessage(batch.mcqs[batch.k]))
    /\ batch' = [batch EXCEPT !.pc = "question"]
    /\ UNCHANGED <<questions, attempts, today, ret, req, archive, configured>>

\* part_000:235-237: the send of the context message settles (a rejection is
\* caught and logged), sleep(500) is called without await, and the question
\* message with the buttons is issued.
ContextReturns(ok) ==
    /\ batch.pc = "context"
    /\ outbox' = Issue(Settle(outbox, ok), QuestionMessage(batch.mcqs[batch.k]))
    /\ batch' = [batch EXCEPT !.pc = "question"]
    /\ UNCHANGED <<questions, attempts, today, ret, req, archive, configured>>

QuestionReturnsAbortsOnFailure(ok) ==
    /\ batch.pc = "question"
    /\ IF ~ok
       THEN /\ outbox' = Settle(outbox, ok)
            /\ batch' = [batch EXCEPT !.pc = "failed"]
       ELSE IF batch.k < Len(batch.mcqs)
       THEN /\ outbox' = Issue(Settle(outbox, ok), ContextMessage(batch.mcqs[batch.k + 1]))
            /\ batch' = [batch EXCEPT !.pc = "context", !.k = batch.k + 1]
       ELSE /\ outbox' = Settle(outbox, ok)
            /\ batch' = [batch EXCEPT !.pc = "done"]
    /\ UNCHANGED <<questions, attempts, today, ret, req, archive, configured>>

\* part_000:237-238 and 219: the send of the question message settles and
\* the loop goes on to the next MCQ, if any.
QuestionReturns(ok) ==
    /\ batch.pc = "question"
    /\ IF batch.k < Len(batch.mcqs)
       THEN /\ outbox' = Issue(Settle(outbox, ok), ContextMessage(batch.mcqs[batch.k + 1]))
            /\ batch' = [batch EXCEPT !.pc = "context", !.k = batch.k + 1]
       ELSE /\ outbox' = Settle(outbox, ok)
            /\ batch' = [batch EXCEPT !.pc = "done"]
    /\ UNCHANGED <<questions, attempts, today, ret, req, archive, configured>>

\* The events of the user pressing a button of a question message that
\* reached the chat.
DeliveredBodies ==
    UNION {{[callback |-> TRUE, hasData |-> TRUE, hasMessage |-> TRUE,
             data |-> outbox[m].buttons[i].callbackData] :
               i \in 1..Len(outbox[m].buttons)} :
             m \in {x \in 1..Len(outbox) :
                       outbox[x].kind = "question" /\ outbox[x].status = "sent"}}

\* The batch runs, one after the other, and the webhook under the events of
\* the buttons delivered.
NextRun ==
    \/ \E dbOpens \in BOOLEAN : StartRun(dbOpens)
    \/ \E ok \in BOOLEAN, eligible \in 0..MaxBatch :
          FetchReturns(ok, eligible, DefaultCount)
    \/ \E response \in Responses, id \in Ids, faultAt \in 0..MaxBatch,
          fileOk \in BOOLEAN, dies \in BOOLEAN :
          GenerateReturns(response, id, faultAt, fileOk, dies)
    \/ \E ok \in BOOLEAN : ContextReturns(ok)
    \/ \E ok \in BOOLEAN : QuestionReturns(ok)
    \/ \E r \in Slots :
          \/ Arrives(r, DeliveredBodies, MaxRows)
          \/ Step(r)

SpecRun == InitRun /\ [][NextRun]_vars

-----------------------------------------------------------------------------
(* The batch run over several candidates: selectQuestions takes the number *)
(* to sample as its second parameter (part_000:97), so generateMcqs,       *)
(* saveToDb, saveToFile and sendToTelegram handle lists of any length.     *)

\* A parsed_output of the schema, its first option flagged correct.
WellFormedOutput ==
    [question |-> "t1", leetcode_description |-> "d1",
     options |-> [i \in 1..MaxOptions |-> [content |-> "c", is_correct |-> (i = 1)]],
     explanation |-> "e1"]

\* The generation call throws, gives no parsed_output, or gives that one.
BatchResponses ==
    {r \in Responses : r.kind # "parsed" \/ r.output = WellFormedOutput}

\* The store is empty: no run has been made.
InitBatch ==
    /\ questions = {}
    /\ attempts = <<>>
    /\ today = 0
    /\ ret = NoCall
    /\ req = [r \in Slots |-> NoRequest]
    /\ batch = NoRun
    /\ outbox = <<>>
    /\ archive = <<>>
    /\ configured \in BOOLEAN

\* The source has no more eligible candidates than there are ids left.
Eligible ==
    0..(IF Cardinality(Ids \ UsedIds) < MaxBatch
        THEN Cardinality(Ids \ UsedIds) ELSE MaxBatch)

\* The batch runs, one after the other, each sampling up to MaxBatch
\* candidates.
NextBatch ==
    \/ \E dbOpens \in BOOLEAN : StartRun(dbOpens)
    \/ \E ok \in BOOLEAN, eligible \in Eligible, count \in 1..MaxBatch :
          FetchReturns(ok, eligible, count)
    \/ \E response \in BatchResponses, id \in Ids, faultAt \in 0..MaxBatch,
          fileOk \in BOOLEAN, dies \in BOOLEAN :
          GenerateReturns(response, id, faultAt, fileOk, dies)
    \/ \E ok \in BOOLEAN : ContextReturns(ok)
    \/ \E ok \in BOOLEAN : QuestionReturns(ok)

SpecBatch == InitBatch /\ [][NextBatch]_vars

-----------------------------------------------------------------------------
(* Claims about the Db API (checked under SpecDb, where every step is the  *)
(* call that ret' describes).                                              *)

\* C1: recordAttempt called with a questionId that is not in the questions
\* table throws, with "Question not found" unless the SELECT itself failed, and
\* leaves both tables as they were: no attempt row is added.
C1_UnknownQuestionRejected ==
    [][(ret'.op = "recordAttempt" /\ GetQuestion(ret'.id) = {})
         => /\ ret'.threw
            /\ (ret'.fault # "get" => ret'.error = "Question not found")
            /\ attempts' = attempts
            /\ questions' = questions]_vars

C1_Witness ==
    /\ ret.op = "recordAttempt"
    /\ ret.id = UnknownId
    /\ ret.error = "Question not found"
    /\ questions # {}
    /\ Len(attempts) = 1

\* Two strings are the same up to the case of their letters.
SameIgnoringCase(a, b) ==
    /\ Len(a) = Len(b)
    /\ \A i \in 1..Len(a) :
          \/ a[i] = b[i]
          \/ \E k \in 1..Len(Upper) : {a[i], b[i]} = {Upper[k], Lower[k]}

\* C2: a recordAttempt that succeeds returns correct = true exactly when the
\* selected label equals the question's stored correct label up to case, and
\* the row it adds stores 1 exactly when it returns true (0 otherwise).
C2_CorrectIffLabelsMatchIgnoringCase ==
    [][(ret'.op = "recordAttempt" /\ ~ret'.threw)
         => /\ Len(attempts') = Len(attempts) + 1
            /\ \E qn \in GetQuestion(ret'.id) :
                  LET row == attempts'[Len(attempts')] IN
                  /\ ret'.question = {qn}
                  /\ ret'.correct <=> SameIgnoringCase(ret'.selected, qn.correct_answer)
                  /\ row.correct = (IF ret'.correct THEN 1 ELSE 0)
                  /\ row.question_id = ret'.id
                  /\ row.selected_answer = ret'.selected]_vars

C2_Witness ==
    /\ ret.op = "recordAttempt"
    /\ ret.correct
    /\ ret.selected = <<"a">>
    /\ \E qn \in GetQuestion(ret.id) : qn.correct_answer = <<"A">>
    /\ Len(attempts) = 2
    /\ attempts[1].correct = 0
    /\ attempts[2].correct = 1

IsPrefix(s, t) ==
    /\ Len(s) <= Len(t)
    /\ \A i \in 1..Len(s) : s[i] = t[i]

\* C3: every call keeps every stored question and every earlier attempt as it
\* was; a recordAttempt that succeeds, a repeat of an earlier (questionId,
\* selectedLabel) included, adds exactly one attempt row and touches no
\* question.
C3_AppendOnly ==
    [][/\ questions \subseteq questions'
       /\ IsPrefix(attempts, attempts')
       /\ (ret'.op = "recordAttempt" /\ ~ret'.threw)
            => /\ Len(attempts') = Len(attempts) + 1
               /\ questions' = questions
       /\ (ret'.op = "recordAttempt" /\ ret'.threw) => attempts' = attempts]_vars

\* The same (questionId, selectedLabel) recorded twice.
C3_Witness ==
    /\ Len(attempts) = 2
    /\ attempts[1].question_id = attempts[2].question_id
    /\ attempts[1].selected_answer = attempts[2].selected_answer
    /\ attempts[1].id = 1
    /\ attempts[2].id = 2
    /\ ret.op = "recordAttempt"
    /\ ~ret.threw

\* C18: insertQuestion called with an id that a stored question already has
\* throws the constraint error of the PRIMARY KEY and leaves the stored
\* question of that id, every other question and every attempt as they were.
C18_DuplicateIdRejected ==
    [][(ret'.op = "insertQuestion" /\ GetQuestion(ret'.id) # {})
         => /\ ret'.threw
            /\ ret'.error = "SqliteError"
            /\ questions' = questions
            /\ attempts' = attempts]_vars

\* A second insert under a stored id, with other content than the stored
\* question has, while another question is stored too.
C18_Witness ==
    /\ ret.op = "insertQuestion"
    /\ ret.threw
    /\ Cardinality(questions) = 2
    /\ GetQuestion(ret.id) # {}
    /\ GetQuestion(ret.id) # ret.question

-----------------------------------------------------------------------------
(* Claims about the webhook.                                               *)

\* k is the number of consecutive days, walking backward from day, that each
\* hold a correct attempt of rows.
IsStreak(k, rows, day) ==
    /\ k \in 0..(day + 1)
    /\ \A d \in (day - k + 1)..day : CorrectOn(rows, d)
    /\ k <= day => ~CorrectOn(rows, day - k)

C7_AckBeforeRecord ==
    \A r \in Slots :
       (req[r].pc \in {"awaitAck", "awaitEdit", "awaitSend"} \/ req[r].recorded # "none")
         => req[r].acked

C7_Witness ==
    \E r \in Slots :
       /\ req[r].acked
       /\ req[r].recorded = "threw"
       /\ req[r].error = "SqliteError"
       /\ req[r].pc = "done"

\* C8: every request whose handling has ended was answered with status 200
\* (checked under SpecBot).
C8_AlwaysResponds200 ==
    \A r \in Slots : req[r].pc \in {"done", "rejected"} => req[r].status = 200

\* C9: when recordAttempt throws for a callback, handleAnswer hands the
\* failure text to sendTelegramMessage (which issues the send when the bot
\* token and chat id are set), the error does not escape the handler, the
\* process stays up and the request ends answered with 200 (checked under
\* SpecBot).
C9_RecordFailureIsContained ==
    \A r \in Slots :
       req[r].recorded = "threw"
         => /\ req[r].reply = FailureReply
            /\ req[r].sendIssued = configured
            /\ req[r].pc \in {"awaitSend", "done"}
            /\ req[r].pc = "awaitSend" => configured
            /\ req[r].pc = "done" => req[r].status = 200
            /\ ~req[r].crashed

\* A callback recorded after an earlier one failed in recordAttempt.
C9_Witness ==
    \E r \in Slots :
       /\ req[r].priorFailure
       /\ req[r].recorded = "ok"
       /\ req[r].reply.kind = "correct"
       /\ req[r].status = 200
       /\ configured

\* C10: a callback whose payload does not split into exactly three fields
\* leads to no attempt row (checked under SpecBot).
C10_MalformedPayloadWritesNothing ==
    \A r \in Slots :
       (req[r].callback /\ req[r].nfields # 3) => req[r].recorded # "ok"

\* C13: when recordAttempt has succeeded for a callback, one reply is handed
\* to sendTelegramMessage: for a correct attempt the congratulation with the
\* streak as it stands with the attempt just recorded, for an incorrect one
\* the message with the text, the stored correct label and the explanation
\* of the question the payload's questionId names and the label the user
\* selected (checked under SpecBot).
C13_ReplyAfterRecordedAttempt ==
    [][\A r \in Slots :
          (req[r].pc = "awaitEdit" /\ req'[r].recorded = "ok")
            => /\ req'[r].sendIssued = configured
               /\ req'[r].isCorrect
                    => /\ req'[r].reply.kind = "correct"
                       /\ IsStreak(req'[r].reply.streak, attempts', today')
               /\ ~req'[r].isCorrect
                    => /\ req'[r].reply.kind = "incorrect"
                       /\ req'[r].reply.question = GetQuestion(req[r].questionId)
                       /\ req'[r].reply.question # {}
                       /\ req'[r].reply.answer = req[r].answer]_vars

\* C20: the failure text is the reply to a callback only if recordAttempt
\* has written no attempt row for it (checked under SpecBot).
C20_FailureTextOnlyWithoutAttempt ==
    \A r \in Slots : req[r].reply = FailureReply => req[r].recorded # "ok"

-----------------------------------------------------------------------------
(* Claims about the batch run and the way to the webhook (checked under    *)
(* SpecRun).                                                               *)

\* The positions of the options flagged correct.
CorrectPositions(options) == {i \in 1..Len(options) : options[i].is_correct}

\* The MCQs of the run that saveToDb has inserted and whose question message
\* has reached the chat, each with the index of that message.
PersistedAndDelivered ==
    {<<k, m>> \in batch.saved \X (1..Len(outbox)) :
        /\ outbox[m].kind = "question"
        /\ outbox[m].status = "sent"
        /\ outbox[m].id = batch.mcqs[k].id}

\* C4: for every question persisted and delivered and every option position
\* i, a callback carrying the payload of the button of position i is decoded
\* to that question's id and to the label chr(65 + i) the button shows, and
\* the attempt recorded for it is correct exactly when option i is flagged
\* correct in the MCQ.
C4_EndToEndCorrelation ==
    \A r \in Slots : \A km \in PersistedAndDelivered :
       \A i \in 1..Len(outbox[km[2]].buttons) :
          LET mcq == batch.mcqs[km[1]]
              button == outbox[km[2]].buttons[i]
          IN  (req[r].callback /\ req[r].data = button.callbackData)
                => /\ req[r].questionId = mcq.id
                   /\ req[r].answer = button.text
                   /\ button.text = <<Upper[i]>>
                   /\ req[r].recorded = "ok"
                        => /\ req[r].isCorrect <=> mcq.options[i].is_correct
                           /\ attempts[Len(attempts)].question_id = mcq.id
                           /\ attempts[Len(attempts)].correct = 1
                                <=> mcq.options[i].is_correct

\* C5: every MCQ that generateMcqs has kept, and so every one that is
\* inserted in the store, appended to the archive or sent to the chat, has
\* exactly one option flagged correct.
C5_ExactlyOneCorrectOption ==
    /\ \A k \in 1..Len(batch.mcqs) :
          (\/ k \in batch.saved
           \/ \E m \in 1..Len(outbox) : outbox[m].id = batch.mcqs[k].id)
            => Cardinality(CorrectPositions(batch.mcqs[k].options)) = 1
    /\ \A a \in 1..Len(archive) :
          Cardinality(CorrectPositions(archive[a].options)) = 1

\* C17: for every MCQ that saveToDb has inserted, getQuestion by its id gives
\* a row that holds the options of the MCQ, in their order and with their
\* is_correct flags.
C17_OptionsRoundTrip ==
    \A k \in batch.saved :
       /\ GetQuestion(batch.mcqs[k].id) # {}
       /\ \A row \in GetQuestion(batch.mcqs[k].id) :
             /\ "options" \in DOMAIN row
             /\ row.options = batch.mcqs[k].options

-----------------------------------------------------------------------------
(* Claims about a batch run over several candidates (checked under         *)
(* SpecBatch).                                                             *)

\* C11: every question message was issued right after the context message
\* of the same question, and only once the send of that context message had
\* settled (its fetch resolved, or rejected and the rejection was caught);
\* so across a batch no question message stands before the context message
\* of its question.
C11_ContextBeforeQuestion ==
    \A m \in 1..Len(outbox) :
       outbox[m].kind = "question"
         => /\ m > 1
            /\ outbox[m - 1].kind = "context"
            /\ outbox[m - 1].id = outbox[m].id
            /\ outbox[m - 1].status \in {"sent", "failed"}
            /\ outbox[m - 1].buttons = <<>>
            /\ Len(outbox[m].buttons) = Len(WellFormedOutput.options)

\* Two questions delivered in one run.
C11_Witness ==
    /\ Len(batch.mcqs) = 2
    /\ Len(outbox) = 4
    /\ outbox[2].kind = "question"
    /\ outbox[4].kind = "question"
    /\ outbox[2].id # outbox[4].id
    /\ outbox[3].status = "sent"

\* C12: every question message issued carries the id of a question that is
\* in the store (questions are never deleted, so it was there when the
\* message was issued exactly if it is there now or was inserted later, and
\* saveToDb runs before any message is issued).
C12_DeliveredOnlyIfPersisted ==
    \A m \in 1..Len(outbox) :
       outbox[m].kind = "question" => GetQuestion(outbox[m].id) # {}

\* C15: when a generation call settles, whatever it gave, the run does not
\* end with the error of generateMcqs: the call of the next candidate is
\* issued if there is one, and after the last candidate every MCQ gathered is
\* handed to saveToDb, saveToFile and sendToTelegram; a candidate without
\* output adds no MCQ.
C15_GenerationFailureSkipsCandidate ==
    [][batch.pc = "generate"
         => /\ batch'.error # "generateMcqs"
            /\ batch.k < batch.n
                 => /\ batch'.pc = "generate"
                    /\ batch'.k = batch.k + 1
            /\ (batch.k = batch.n /\ batch'.error = "")
                 => /\ batch'.pc \in {"context", "done", "crashed"}
                    /\ archive' = archive \o batch'.mcqs
            /\ Len(batch'.mcqs) \in {Len(batch.mcqs), Len(batch.mcqs) + 1}]_vars

\* The last message issued.
LastIssued(box) == box[Len(box)]

\* No message was issued twice.
NoRetry(box) ==
    \A i, j \in 1..Len(box) :
       (box[i].kind = box[j].kind /\ box[i].id = box[j].id) => i = j

\* C16: when the send of a context or question message settles, failed or
\* not, the store is left as it is, the run does not end in an error, the
\* message is not issued again, and the next message is issued: the question
\* message of the same MCQ after its context message, the context message of
\* the next MCQ after a question message, none after the last.
C16_TransportFailureDoesNotAbort ==
    [][batch.pc \in {"context", "question"}
         => /\ questions' = questions
            /\ batch'.error = ""
            /\ NoRetry(outbox')
            /\ \A m \in 1..Len(outbox) :
                  /\ outbox'[m].kind = outbox[m].kind
                  /\ outbox'[m].id = outbox[m].id
            /\ batch.pc = "context"
                 => /\ batch'.pc = "question"
                    /\ Len(outbox') = Len(outbox) + 1
                    /\ LastIssued(outbox') = QuestionMessage(batch.mcqs[batch.k])
            /\ (batch.pc = "question" /\ batch.k < Len(batch.mcqs))
                 => /\ batch'.pc = "context"
                    /\ Len(outbox') = Len(outbox) + 1
                    /\ LastIssued(outbox') = ContextMessage(batch.mcqs[batch.k + 1])
            /\ (batch.pc = "question" /\ batch.k = Len(batch.mcqs))
                 => /\ batch'.pc = "done"
                    /\ Len(outbox') = Len(outbox)]_vars

\* Both sends of the first MCQ failed, the MCQ is in the store, and both
\* messages of the second were issued.
C16_Witness ==
    /\ Len(outbox) = 4
    /\ outbox[1].status = "failed"
    /\ outbox[2].status = "failed"
    /\ GetQuestion(outbox[2].id) # {}
    /\ outbox[4].kind = "question"
    /\ outbox[4].id # outbox[2].id
    /\ batch.pc = "done"

\* The messages in the outbox for the MCQs of the current run.
RunMessages ==
    SelectSeq(outbox,
              LAMBDA msg : \E i \in 1..Len(batch.mcqs) : batch.mcqs[i].id = msg.id)

\* The MCQs of the current run that are in the store, in the archive or in
\* the outbox.
HandedOn ==
    {i \in 1..Len(batch.mcqs) :
        \/ GetQuestion(batch.mcqs[i].id) # {}
        \/ \E a \in 1..Len(archive) : archive[a].id = batch.mcqs[i].id
        \/ \E m \in 1..Len(outbox) : outbox[m].id = batch.mcqs[i].id}

-----------------------------------------------------------------------------
(* Claims about two callbacks handled at once (checked under SpecPair).    *)

\* The handler of the pair that is not r.
Other(r) == CHOOSE q \in Pair : q # r

\* The handler is suspended at an await.
InFlight(r) == req[r].pc \in {"awaitAck", "awaitEdit", "awaitSend"}

\* The label is the stored correct label of the question, up to case.
IsCorrectLabel(questionId, label) ==
    \E qn \in GetQuestion(questionId) : SameIgnoringCase(qn.correct_answer, label)

\* C14: with two callbacks handled at once, for the same question or not,
\* interleaved at every await: a step of one handler leaves the other as it
\* is; the step in which a handler's recordAttempt succeeds appends exactly
\* one attempt row, for that handler's questionId and label, flagged correct
\* exactly when that label is the stored correct label of that question, and
\* no other step changes the table; a handler that runs to its end, whose
\* question exists and whose database calls did not fail, has recorded its
\* attempt; and every handler suspended at an await goes on to its end (or
\* the process has ended on an error that escaped a handler).
C14_ConcurrentCallbacks ==
    /\ [][\A r \in Pair :
             req'[r] # req[r]
               => /\ req'[Other(r)] = req[Other(r)]
                  /\ IF req[r].pc = "awaitEdit" /\ req'[r].recorded = "ok"
                     THEN /\ Len(attempts') = Len(attempts) + 1
                          /\ SubSeq(attempts', 1, Len(attempts)) = attempts
                          /\ LET row == attempts'[Len(attempts')] IN
                             /\ row.question_id = req[r].questionId
                             /\ row.selected_answer = req[r].answer
                             /\ row.correct = 1
                                  <=> IsCorrectLabel(req[r].questionId, req[r].answer)
                             /\ req'[r].isCorrect <=> row.correct = 1
                     ELSE attempts' = attempts]_vars
    /\ [](\A r \in Pair :
             (/\ req[r].pc = "done"
              /\ req[r].callback
              /\ GetQuestion(req[r].questionId) # {}
              /\ req[r].error # "SqliteError")
               => req[r].recorded = "ok")
    /\ \A r \in Pair :
          InFlight(r) ~> (req[r].pc \in {"done", "rejected"} \/ ProcessEnded)

\* Both handlers are suspended before recordAttempt with callbacks for the
\* same question and different labels, and an attempt for that question has
\* been recorded.
C14_Witness ==
    /\ req[1].pc = "awaitEdit"
    /\ req[2].pc = "awaitEdit"
    /\ req[1].questionId = req[2].questionId
    /\ req[1].answer # req[2].answer
    /\ GetQuestion(req[1].questionId) # {}
    /\ Len(attempts) = 1
    /\ attempts[1].question_id = req[1].questionId

====
